---- MODULE Spec2Model ----
(***************************************************************************)
(* A model of scrape_cesnetl.py: one run of the script, from the state     *)
(* after the two Google Sheets were read and the web driver was created    *)
(* to the end of the process.                                              *)
(*                                                                         *)
(* The script is one sequential thread.  Every attempt of a retry block    *)
(* is one action; what the outside world does during the attempt (a fetch  *)
(* faults, the login prompt shows up, an extraction faults) is an input of *)
(* the action, drawn with \E.                                              *)
(*                                                                         *)
(* Python lists are sequences, the fields of a posting are kept in the     *)
(* order the script appends them:                                          *)
(*   <<id, week, url, timestamp, salary flag, source code, text>>          *)
(* None is the string NoneValue, booleans are the strings "True"/"False".  *)
(***************************************************************************)
EXTENDS Naturals, Sequences, FiniteSets, TLC

\* ------------------------------------------------------------------ bounds

\* Number of tries of every retry block.  The script sets 15; the model
\* keeps the loop and its three branches and runs it with a smaller number.
ntries == 2

\* ------------------------------------------------------------ the outside

NoneValue == "<None>"
Unbound   == "<unbound>"
FAILURE   == "FAILURE"
Timestamp == "<now>"

\* The page that shows the login prompt (login_text) instead of the content.
WallPage == "<login page>"

url_base == "https://listserv.kent.edu"

\* An <a href=...> element of a compilation page: its string (None when the
\* element has more than one child) and its href.
Anchor(text, href) == [text |-> text, href |-> href]

\* The weekly compilations of the archive.  label is the text of the <li>
\* on the archive index, week the second <h2> inside the compilation page,
\* anchors the <a> elements of the page in document order.
Compilations ==
    { [label |-> "W1", href |-> "cW1", week |-> "W1",
       anchors |-> << Anchor("Assistant Professor of X", "https://u4"),
                      Anchor("click here", "https://x.edu/job"),
                      Anchor("Lecturer Position", "http://insecure.example"),
                      Anchor("FACULTY opening", "http://u5/?next=https") >>],
      [label |-> "W2", href |-> "cW2", week |-> "W2",
       anchors |-> << Anchor("Instructor", "https://u1"),
                      Anchor(NoneValue, "https://x.edu/logo"),
                      Anchor("Open position", "https://u2") >>],
      [label |-> "W3", href |-> "cW3", week |-> "W3",
       anchors |-> << Anchor("Archive home", "https://x.edu/home"),
                      Anchor("Professor", "/cgi-bin/wa.exe?A2=1") >>],
      [label |-> "W4", href |-> "cW4", week |-> "2024, Week 4",
       anchors |-> << Anchor("faculty", "https://u2"),
                      Anchor("Visiting professor", "https://u3") >>] }

CompilationUrls == { c.href : c \in Compilations }

PostingUrls == {"https://u1", "https://u2", "https://u3", "https://u4", "http://u5/?next=https"}

\* The links of a posting page: u1 offers both forms of the message, u2 only
\* the HTML form, u3 neither, u4 only the plain text form.
HasPlainLink(u) == u \in {"https://u1", "https://u4"}
HasHtmlLink(u)  == u \in {"https://u1", "https://u2"}

\* href of the 'text/plain' and of the 'text/html' link of a posting page.
PlainHref(u) == "/plain/" \o u
HtmlHref(u)  == "/html/" \o u

\* The source code served at a message URL.
MessagePage(url_message) == "page:" \o url_message

\* Column B of the postings sheet as the script finds it (one label per
\* posting already stored).
LedgerChoices ==
    { <<"W1", "W2">>,
      <<"W1", "W1", "W2", "W2">>,
      <<"W0", "W2", "W1">> }

\* What a navigation can do: load the page, fault, or show the login prompt;
\* after the prompt, login_cesnet faults, or the session ends up on the
\* content, or the prompt is still there.
FetchOutcomes == {"ok", "fault", "wall_login_ok", "wall_login_fault", "wall_stuck"}

\* ------------------------------------------------------------------- state

VARIABLES
    pc,                 \* where the script is
    postings_sheet,     \* rows of the postings spreadsheet (columns A:E)
    urls_sheet,         \* rows of the spreadsheet of URLs inside messages
    live,               \* the archive index: li_elements[1] and [2]
    last_compilation_collected,
    previous_to_last_compilation_collected,
    n_compilations,
    n_urls,
    driver,             \* "open" | "quit"
    attempt,            \* loop variable of the current retry block
    sleeps,             \* sleep(retry_delay) calls of the current retry block
    missing_compilations_data,
    fetched,            \* every URL handed to driver.get so far
    trace,              \* what the last attempt did, in order (its log)
    exit_code,          \* "running" | "0" | "1"
    wk,                 \* position of missing_compilation in missing_compilations_data
    ui,                 \* position of url in urls
    url,                \* the loop variable of line 443, Unbound before its first value
    data_posting,
    data_compilation,
    ei,                 \* position of data_posting in the loop of line 626
    mi,                 \* position of url_in_message in the loop of line 638
    data_compilation_urls_inside_messages,
    blobs               \* names of the files uploaded to Google Drive, in order

vars == <<pc, postings_sheet, urls_sheet, live, last_compilation_collected,
          previous_to_last_compilation_collected, n_compilations, n_urls,
          driver, attempt, sleeps, missing_compilations_data, fetched, trace,
          exit_code, wk, ui, url, data_posting, data_compilation, ei, mi,
          data_compilation_urls_inside_messages, blobs>>

\* What the script reads once, before the driver exists.
startup == <<live, last_compilation_collected, previous_to_last_compilation_collected,
             n_compilations, n_urls>>

\* The variables of the posting loop.
posting_vars == <<wk, ui, url, data_posting, data_compilation>>

\* ----------------------------------------------------------------- helpers

\* list(dict.fromkeys(xs)): the first occurrence of each value, in order.
RECURSIVE Dedup(_)
Dedup(xs) ==
    IF xs = <<>> THEN <<>>
    ELSE LET init == Dedup(SubSeq(xs, 1, Len(xs) - 1))
             x    == xs[Len(xs)]
         IN IF \E i \in 1..Len(init) : init[i] = x THEN init ELSE Append(init, x)

\* weeks of the ledger: column B, deduplicated.
weeks(rows) == Dedup(rows)

\* [row[0] for row in rows] of range B:B.
ColumnB(sheet) == [i \in 1..Len(sheet) |-> sheet[i][2]]

\* The sheet of the URLs inside the messages as the script finds it.
InitialUrlsSheet == << <<1, 1, "W1", "old", "old", Timestamp, "False">> >>

\* A row a former run stored.
OldRow(i, w) == <<i, w, "old", Timestamp, "False">>

\* check_login_required and what follows it: the source code the script
\* reads after a navigation with outcome o to a page whose content is page.
Faulted(o) == o \in {"fault", "wall_login_fault"}
PageSource(o, page) == IF o = "wall_stuck" THEN WallPage ELSE page

\* The source code served at a compilation URL.
CompilationPage(href) == "page:" \o href

\* What a navigation to u, whose content is page, leaves in the log.
FetchEvents(u, o, page) ==
    CASE o = "ok"               -> << <<"get", u>>, <<"source", page>> >>
      [] o = "fault"            -> << <<"get_fault", u>> >>
      [] o = "wall_login_ok"    -> << <<"get", u>>, <<"login", u>>, <<"source", page>> >>
      [] o = "wall_login_fault" -> << <<"get", u>>, <<"login_fault", u>> >>
      [] o = "wall_stuck"       -> << <<"get", u>>, <<"login", u>>, <<"source", WallPage>> >>

\* The later phases: the loop over the URLs inside the messages and the
\* uploads.
later_vars == <<ei, mi, data_compilation_urls_inside_messages, blobs>>

\* --------------------------------------------------------------------- Init

\* The state after line 238.  The ledger has at least two different labels
\* (weeks[-2] of line 214 exists), and the two entries of the archive index
\* are two different compilations with different labels: the archive lists
\* a week once.
Init ==
    /\ pc = "index"
    /\ \E rows \in LedgerChoices :
          /\ postings_sheet = [i \in 1..Len(rows) |-> OldRow(i, rows[i])]
          /\ last_compilation_collected = weeks(rows)[Len(weeks(rows))]
          /\ previous_to_last_compilation_collected = weeks(rows)[Len(weeks(rows)) - 1]
          /\ n_compilations = Len(rows)
    /\ urls_sheet = InitialUrlsSheet
    /\ n_urls = Len(InitialUrlsSheet)
    /\ \E p \in Compilations, pp \in Compilations :
          /\ p.label # pp.label
          /\ live = [previous_to_latest |-> p, previous_to_previous_to_latest |-> pp]
    /\ driver = "open"
    /\ attempt = 0
    /\ sleeps = 0
    /\ missing_compilations_data = <<>>
    /\ fetched = {}
    /\ trace = <<>>
    /\ exit_code = "running"
    /\ wk = 1
    /\ ui = 1
    /\ url = Unbound
    /\ data_posting = <<>>
    /\ data_compilation = <<>>
    /\ ei = 1
    /\ mi = 1
    /\ data_compilation_urls_inside_messages = <<>>
    /\ blobs = <<>>

\* ------------------------------------------------- first retry block (index)

\* The test of line 289.
NothingNew ==
    /\ live.previous_to_latest.label = last_compilation_collected
    /\ live.previous_to_previous_to_latest.label = previous_to_last_compilation_collected

\* A test that takes both labels of the ledger as known.
IsMissingFromLastTwo(c) ==
    /\ c.label # last_compilation_collected
    /\ c.label # previous_to_last_compilation_collected

\* The tests of lines 309 and 359.
IsMissing(c) == c.label # last_compilation_collected

\* What the scrape of a compilation can do: what a navigation can do, and
\* when the login page is what the script parses, either its second <h2>
\* is taken as the week or find_all('h2')[1] is an IndexError.
CompilationOutcomes == FetchOutcomes \cup {"wall_unparsed"}

CompilationFaulted(o) == Faulted(o) \/ o = "wall_unparsed"

CompilationEvents(c, o) ==
    IF o = "wall_unparsed"
    THEN Append(FetchEvents(c.href, "wall_stuck", CompilationPage(c.href)),
                <<"parse_fault", c.href>>)
    ELSE FetchEvents(c.href, o, CompilationPage(c.href))

\* 'sub in s' of Python strings.
Contains(s, sub) ==
    \E i \in 1..(Len(s) + 1 - Len(sub)) : SubSeq(s, i, i + Len(sub) - 1) = sub

UpperCase == "ABCDEFGHIJKLMNOPQRSTUVWXYZ"
LowerCase == "abcdefghijklmnopqrstuvwxyz"

\* str.lower()
RECURSIVE lower(_)
lower(s) ==
    IF Len(s) = 0 THEN ""
    ELSE LET ch == SubSeq(s, Len(s), Len(s))
             lc == IF \E i \in 1..26 : SubSeq(UpperCase, i, i) = ch
                   THEN LET i == CHOOSE i \in 1..26 : SubSeq(UpperCase, i, i) = ch
                        IN SubSeq(LowerCase, i, i)
                   ELSE ch
         IN lower(SubSeq(s, 1, Len(s) - 1)) \o lc

\* Lines 39-46.  The string of an element is None when BeautifulSoup finds
\* no single string in it.
contains_posting(text) ==
    /\ text # NoneValue
    /\ text # ""
    /\ \/ Contains(lower(text), "faculty")
       \/ Contains(lower(text), "professor")
       \/ Contains(lower(text), "position")
       \/ Contains(lower(text), "instructor")

\* Lines 344 and 394: the hrefs of the elements find_all(...) returns that
\* pass the test 'https' in a['href'], in document order.
RECURSIVE PostingLinks(_)
PostingLinks(anchors) ==
    IF anchors = <<>> THEN <<>>
    ELSE LET a    == anchors[Len(anchors)]
             rest == PostingLinks(SubSeq(anchors, 1, Len(anchors) - 1))
         IN IF contains_posting(a.text) /\ Contains(a.href, "https")
            THEN Append(rest, a.href) ELSE rest

\* urls of lines 344 and 394 for each compilation page, by its URL.
PageLinks ==
    [h \in CompilationUrls |->
        PostingLinks((CHOOSE c \in Compilations : c.href = h).anchors)]

\* The heading the login page has in the place of the week.
WallWeek == "Log In"

\* The week taken from the <li> of the archive index.
ParseCompilationIndexLabel(c, o) ==
    IF o = "wall_stuck"
    THEN [week |-> WallWeek, urls |-> <<>>]
    ELSE [week |-> c.label, urls |-> PageLinks[c.href]]

\* Lines 327-349: the [week, urls] read from the source code of a
\* compilation.  The login page carries no posting and no week of its own.
ParseCompilation(c, o) ==
    IF o = "wall_stuck"
    THEN [week |-> WallWeek, urls |-> <<>>]
    ELSE [week |-> c.week, urls |-> PageLinks[c.href]]

\* An except clause that starts the block again after the last attempt.
RetryForever ==
    IF attempt < ntries - 1
    THEN /\ attempt' = attempt + 1
         /\ sleeps' = sleeps + 1
         /\ UNCHANGED <<pc, exit_code>>
    ELSE /\ attempt' = 0
         /\ sleeps' = 0
         /\ UNCHANGED <<pc, exit_code>>

\* An except clause that sleeps before it raises.
SleepThenRaise ==
    IF attempt < ntries - 1
    THEN /\ attempt' = attempt + 1
         /\ sleeps' = sleeps + 1
         /\ UNCHANGED <<pc, exit_code>>
    ELSE /\ pc' = "crashed"
         /\ exit_code' = "1"
         /\ sleeps' = sleeps + 1
         /\ UNCHANGED attempt

\* An except clause that raises at the first fault.
RaiseAtOnce ==
    /\ pc' = "crashed"
    /\ exit_code' = "1"
    /\ UNCHANGED <<attempt, sleeps>>

\* An except clause that lets the script go on after the last attempt.
RetryOrGoOn ==
    IF attempt < ntries - 1
    THEN /\ attempt' = attempt + 1
         /\ sleeps' = sleeps + 1
         /\ UNCHANGED <<pc, exit_code>>
    ELSE /\ pc' = CASE pc = "index" -> "postings"
                    [] pc = "write_postings" -> "write_urls"
                    [] pc = "write_urls" -> "drive_postings"
                    [] OTHER -> "drive_urls"
         /\ attempt' = 0
         /\ sleeps' = 0
         /\ UNCHANGED exit_code

\* The except clause of a retry block whose exhaustion is fatal.
RetryOrRaise ==
    IF attempt < ntries - 1
    THEN /\ attempt' = attempt + 1
         /\ sleeps' = sleeps + 1
         /\ UNCHANGED <<pc, exit_code>>
    ELSE /\ pc' = "crashed"
         /\ exit_code' = "1"
         /\ UNCHANGED <<attempt, sleeps>>

\* An attempt that faults before line 289: the login, the click on the
\* list, or the <li> elements.
IndexFault ==
    /\ pc = "index"
    /\ trace' = << <<"get_fault", "LOGON">> >>
    /\ RetryOrRaise
    /\ UNCHANGED <<postings_sheet, urls_sheet, startup, driver,
                   missing_compilations_data, fetched, posting_vars, later_vars>>

\* A handler that would catch whatever is raised, SystemExit included.
CaughtAlways(raised) == TRUE

\* 'except Exception' of line 411: SystemExit is a BaseException and not an
\* Exception, the clause lets it pass.
Caught(raised) == raised # "SystemExit"

\* Lines 289-291: sys.exit() raises SystemExit inside the try; when it is
\* not caught the process ends with status 0.
IndexNoOp ==
    /\ pc = "index"
    /\ NothingNew
    /\ IF Caught("SystemExit")
       THEN RetryOrRaise
       ELSE /\ pc' = "exited"
            /\ exit_code' = "0"
            /\ UNCHANGED <<attempt, sleeps>>
    /\ trace' = << <<"get", "LOGON">> >>
    /\ fetched' = fetched \cup {"LOGON"}
    /\ UNCHANGED <<postings_sheet, urls_sheet, startup, driver,
                   missing_compilations_data, posting_vars, later_vars>>

\* The two blocks in the other order: the newer compilation first.
ToScrapeNewerFirst ==
    LET pp == live.previous_to_previous_to_latest
        p  == live.previous_to_latest
    IN (IF IsMissing(p) THEN <<p>> ELSE <<>>) \o (IF IsMissing(pp) THEN <<pp>> ELSE <<>>)

\* The compilations an attempt goes through, older first (lines 308, 358).
ToScrape ==
    LET pp == live.previous_to_previous_to_latest
        p  == live.previous_to_latest
    IN (IF IsMissing(pp) THEN <<pp>> ELSE <<>>) \o (IF IsMissing(p) THEN <<p>> ELSE <<>>)

\* A list that keeps what the attempts before appended.
RecordedOnTop(done) == missing_compilations_data \o done

\* Lines 304-306, 352 and 402: the list is made anew in each attempt and
\* gets the compilations the attempt parsed.
Recorded(done) == done

\* The inputs an attempt can consume: one navigation per compilation it
\* gets to.
IndexInputs ==
    { o \in [1..2 -> CompilationOutcomes] :
         /\ (Len(ToScrape) < 2 \/ CompilationFaulted(o[1])) => o[2] = "ok"
         /\ Len(ToScrape) < 1 => o[1] = "ok" }

\* Lines 293-409: the attempt found something new.  o[i] is what the
\* navigation to the i-th compilation of ToScrape does.
IndexScrape ==
    /\ pc = "index"
    /\ ~NothingNew
    /\ \E o \in IndexInputs :
         LET todo   == ToScrape
             \* the first compilation whose navigation faults, or Len + 1
             stop   == IF \E i \in 1..Len(todo) : CompilationFaulted(o[i])
                       THEN CHOOSE i \in 1..Len(todo) :
                              /\ CompilationFaulted(o[i])
                              /\ \A j \in 1..(i - 1) : ~CompilationFaulted(o[j])
                       ELSE Len(todo) + 1
             done   == [i \in 1..(stop - 1) |-> ParseCompilation(todo[i], o[i])]
             reach  == IF stop <= Len(todo) THEN stop ELSE Len(todo)
             ev(i)  == CompilationEvents(todo[i], o[i])
             events == IF reach = 0 THEN <<>>
                       ELSE IF reach = 1 THEN ev(1)
                       ELSE ev(1) \o ev(2)
         IN /\ missing_compilations_data' = Recorded(done)
            /\ trace' = << <<"get", "LOGON">> >> \o events
            /\ fetched' = fetched \cup {"LOGON"}
                            \cup { todo[i].href : i \in { j \in 1..reach : o[j] # "fault" } }
            /\ IF stop <= Len(todo)
               THEN RetryOrRaise
               ELSE /\ pc' = "postings"
                    /\ attempt' = 0
                    /\ sleeps' = 0
                    /\ UNCHANGED exit_code
    /\ UNCHANGED <<postings_sheet, urls_sheet, startup, driver, posting_vars, later_vars>>

\* ------------------------------------------- second retry block (postings)

\* extract_text of shared_scripts.text_extractor: the plain text of a page.
extract_text(source_code) == "text:" \o source_code

\* check_salary of shared_scripts.salary_functions: whether the text seems
\* to carry salary information.
check_salary(text) ==
    IF text = extract_text(MessagePage(url_base \o PlainHref("https://u1"))) THEN "True" ELSE "False"

\* What the scrape of a message page can do: what a navigation can do, or
\* the page is read and extract_text or check_salary faults.
TierOutcomes == FetchOutcomes \cup {"extract_fault", "salary_fault"}

Navigation(t) == IF t \in FetchOutcomes THEN t ELSE "ok"

\* A tier that appends the source code before it extracts the text.
MessageTierSourceFirst(url_message, t) ==
    LET o      == Navigation(t)
        source == PageSource(o, MessagePage(url_message))
        text   == extract_text(source)
        events == FetchEvents(url_message, o, MessagePage(url_message))
    IN IF Faulted(o)
       THEN [ok |-> FALSE, fields |-> <<>>, events |-> events, got |-> o # "fault"]
       ELSE IF t = "extract_fault"
       THEN [ok |-> FALSE, fields |-> <<source>>, got |-> TRUE,
             events |-> Append(events, <<"extract_text_fault", url_message>>)]
       ELSE IF t = "salary_fault"
       THEN [ok |-> FALSE, fields |-> <<source>>, got |-> TRUE,
             events |-> Append(events, <<"check_salary_fault", url_message>>)]
       ELSE [ok |-> TRUE, fields |-> <<check_salary(text), source, text>>, got |-> TRUE,
             events |-> Append(events, <<"stored", url_message>>)]

\* Lines 496-530 and 541-575: the scrape of the message at url_message.
\* fields is what the tier appends to data_posting, <<>> when it faults.
MessageTier(url_message, t) ==
    LET o      == Navigation(t)
        source == PageSource(o, MessagePage(url_message))
        text   == extract_text(source)
        events == FetchEvents(url_message, o, MessagePage(url_message))
    IN IF Faulted(o)
       THEN [ok |-> FALSE, fields |-> <<>>, events |-> events, got |-> o # "fault"]
       ELSE IF t = "extract_fault"
       THEN [ok |-> FALSE, fields |-> <<>>, got |-> TRUE,
             events |-> Append(events, <<"extract_text_fault", url_message>>)]
       ELSE IF t = "salary_fault"
       THEN [ok |-> FALSE, fields |-> <<>>, got |-> TRUE,
             events |-> Append(events, <<"check_salary_fault", url_message>>)]
       ELSE [ok |-> TRUE, fields |-> <<check_salary(text), source, text>>, got |-> TRUE,
             events |-> Append(events, <<"stored", url_message>>)]

\* A tier that cannot start: soup_posting.find(...) is None and None['href']
\* is a TypeError.
NoLink(kind) ==
    [ok |-> FALSE, fields |-> <<>>, got |-> FALSE, events |-> << <<"no_link", kind>> >>]

\* No second tier: what the plain text tier raises goes to the outer except.
PlainTierOnly(u, plain_there, html_there, t_plain, t_html) ==
    LET plain == IF plain_there
                 THEN MessageTier(url_base \o PlainHref(u), t_plain)
                 ELSE NoLink("text/plain")
    IN [ok |-> plain.ok, fields |-> plain.fields, events |-> plain.events,
        gets |-> IF plain.got THEN {url_base \o PlainHref(u)} ELSE {}]

\* Lines 488-575: the inner try and its bare except.  The HTML tier runs
\* whenever anything in the plain text tier raised.
TwoTiers(u, plain_there, html_there, t_plain, t_html) ==
    LET plain == IF plain_there
                 THEN MessageTier(url_base \o PlainHref(u), t_plain)
                 ELSE NoLink("text/plain")
        html  == IF html_there
                 THEN MessageTier(url_base \o HtmlHref(u), t_html)
                 ELSE NoLink("text/html")
    IN IF plain.ok
       THEN [ok |-> TRUE, fields |-> plain.fields, events |-> plain.events,
             gets |-> {url_base \o PlainHref(u)}]
       ELSE [ok |-> html.ok, fields |-> plain.fields \o html.fields,
             events |-> plain.events \o << <<"fallback", "text/html">> >> \o html.events,
             gets |-> (IF plain.got THEN {url_base \o PlainHref(u)} ELSE {})
                        \cup (IF html.got THEN {url_base \o HtmlHref(u)} ELSE {})]

\* Lines 467-579: the body of the try of one attempt for the posting at u.
PostingAttemptBody(u, o_post, t_plain, t_html) ==
    LET events == FetchEvents(u, o_post, "page:" \o u)
        \* the login page has neither link
        tiers  == TwoTiers(u, o_post # "wall_stuck" /\ HasPlainLink(u),
                              o_post # "wall_stuck" /\ HasHtmlLink(u), t_plain, t_html)
    IN IF Faulted(o_post)
       THEN [ok |-> FALSE, fields |-> <<>>, events |-> events,
             gets |-> IF o_post = "fault" THEN {} ELSE {u}]
       ELSE [ok |-> tiers.ok, fields |-> tiers.fields, events |-> events \o tiers.events,
             gets |-> {u} \cup tiers.gets]

\* The inputs an attempt can consume: what the scrape of a message does
\* matters only when the attempt gets to that message.
PlainInputs(u, o_post) ==
    IF ~Faulted(o_post) /\ o_post # "wall_stuck" /\ HasPlainLink(u)
    THEN TierOutcomes ELSE {"ok"}

HtmlInputs(u, o_post, t_plain) ==
    IF /\ ~Faulted(o_post) /\ o_post # "wall_stuck" /\ HasHtmlLink(u)
       /\ ~(HasPlainLink(u) /\ MessageTier(url_base \o PlainHref(u), t_plain).ok)
    THEN TierOutcomes ELSE {"ok"}

\* An ID that forgets the postings of this run.
FirstFreeId == n_compilations + 1

\* Lines 450 and 614: the ID of the next posting.
NextPostingId == n_compilations + Len(data_compilation) + 1

\* Failure fields that leave the text out.
ShortFailureFields == <<FAILURE, FAILURE>>

\* Lines 590-597: what the exhaustion branch appends to data_posting.
FailureFields == <<FAILURE, FAILURE, FAILURE>>

\* The week and the urls of the compilation the outer loop is at.
week == missing_compilations_data[wk].week
urls == missing_compilations_data[wk].urls

\* The step of the two for loops after the posting at position ui is done.
NextPosting ==
    /\ attempt' = 0
    /\ sleeps' = 0
    /\ IF ui < Len(urls)
       THEN /\ ui' = ui + 1
            /\ UNCHANGED <<wk, pc>>
       ELSE /\ ui' = 1
            /\ wk' = wk + 1
            /\ pc' = IF wk < Len(missing_compilations_data) THEN "postings" ELSE "quit"

\* Lines 443-607: one attempt of the second retry block for urls[ui], with
\* the initialisation of data_posting before the first attempt and the
\* append of line 606 after the last.
PostingAttempt ==
    /\ pc = "postings"
    /\ wk <= Len(missing_compilations_data)
    /\ Len(urls) > 0
    /\ \E o_post \in FetchOutcomes :
       \E t_plain \in PlainInputs(urls[ui], o_post) :
       \E t_html \in HtmlInputs(urls[ui], o_post, t_plain) :
         LET u     == urls[ui]
             start == IF attempt = 0
                      THEN <<NextPostingId, week, u, Timestamp>>
                      ELSE data_posting
             body  == PostingAttemptBody(u, o_post, t_plain, t_html)
             failed == start \o body.fields \o FailureFields
         IN /\ url' = u
            /\ fetched' = fetched \cup body.gets
            /\ IF body.ok
               THEN \* lines 577-579, then line 606
                    /\ data_posting' = start \o body.fields
                    /\ data_compilation' = Append(data_compilation, data_posting')
                    /\ trace' = Append(body.events, <<"break", u>>)
                    /\ NextPosting
               ELSE IF attempt < ntries - 1
               THEN \* lines 584-586
                    /\ data_posting' = start \o body.fields
                    /\ trace' = Append(body.events, <<"except", u>>)
                    /\ attempt' = attempt + 1
                    /\ sleeps' = sleeps + 1
                    /\ UNCHANGED <<data_compilation, wk, ui, pc>>
               ELSE \* lines 588-603, then the loop is over and line 606 runs
                    /\ data_posting' = failed
                    /\ data_compilation' = Append(Append(data_compilation, failed), failed)
                    /\ trace' = body.events \o << <<"except", u>>, <<"exhausted", u>> >>
                    /\ NextPosting
    /\ UNCHANGED <<postings_sheet, urls_sheet, startup, driver, missing_compilations_data,
                   exit_code, later_vars>>

\* Lines 609-614: the week has no posting URL.  The record takes the value
\* url has at that time; when no posting was iterated before, the name url
\* is not defined and the script stops on a NameError.
EmptyWeek ==
    /\ pc = "postings"
    /\ wk <= Len(missing_compilations_data)
    /\ Len(urls) = 0
    /\ IF url = Unbound
       THEN /\ pc' = "crashed"
            /\ exit_code' = "1"
            /\ trace' = << <<"NameError", "url">> >>
            /\ UNCHANGED <<wk, data_compilation>>
       ELSE /\ data_compilation' = Append(data_compilation,
                  <<NextPostingId, week, url, Timestamp,
                    NoneValue, NoneValue, NoneValue>>)
            /\ trace' = << <<"empty_week", week>> >>
            /\ wk' = wk + 1
            /\ pc' = IF wk < Len(missing_compilations_data) THEN "postings" ELSE "quit"
            /\ UNCHANGED exit_code
    /\ UNCHANGED <<postings_sheet, urls_sheet, startup, driver, attempt, sleeps,
                   missing_compilations_data, fetched, ui, url, data_posting, later_vars>>

\* Lines 616-618.
QuitDriver ==
    /\ pc = "quit"
    /\ driver' = "quit"
    /\ pc' = "embedded"
    /\ trace' = <<>>
    /\ UNCHANGED <<postings_sheet, urls_sheet, startup, attempt, sleeps,
                   missing_compilations_data, fetched, exit_code, posting_vars, later_vars>>

\* ------------------------------------------------ URLs inside the messages

\* extract_urls of shared_scripts.url_extractor: the URLs a text mentions,
\* in the order of the text.  The plain text message of u1 mentions e1
\* twice, the HTML message of u2 mentions e2; no other text has a URL.
extract_urls(text) ==
    IF text = extract_text(MessagePage(url_base \o PlainHref("https://u1"))) THEN <<"e1", "e1">>
    ELSE IF text = extract_text(MessagePage(url_base \o HtmlHref("https://u2"))) THEN <<"e2">>
    ELSE <<>>

\* The record with the posting fields of the last posting scraped.
UrlRecordOfLastPosting(posting, url_in_message, k) ==
    LET source == "page:" \o url_in_message
        text   == extract_text(source)
        last   == data_compilation[Len(data_compilation)]
    IN <<last[1], n_urls + k, last[2], last[3], url_in_message, Timestamp,
         check_salary(text), source, text>>

\* The record with an ID counted from the rows of the other sheet.
UrlRecordCountedFromPostings(posting, url_in_message, k) ==
    LET source == "page:" \o url_in_message
        text   == extract_text(source)
    IN <<posting[1], n_compilations + k, posting[2], posting[3], url_in_message, Timestamp,
         check_salary(text), source, text>>

\* Lines 641-686: the record of one URL inside a message, number k of the
\* output list.
UrlRecord(posting, url_in_message, k) ==
    LET source == "page:" \o url_in_message
        text   == extract_text(source)
    IN <<posting[1], n_urls + k, posting[2], posting[3], url_in_message, Timestamp,
         check_salary(text), source, text>>

\* The text the posting loop scraped last, whatever the posting at hand.
LastScrapedText(posting) ==
    LET RECURSIVE Last(_)
        Last(n) == IF n = 0 THEN posting[Len(posting)]
                   ELSE IF data_compilation[n][7] \notin {FAILURE, NoneValue}
                        THEN data_compilation[n][7]
                        ELSE Last(n - 1)
    IN Last(Len(data_compilation))

\* Line 630: text = data_posting[-1]
PostingText(posting) == posting[Len(posting)]

\* Line 634, for the data_posting the loop is at.
urls_in_message == extract_urls(PostingText(data_compilation[ei]))

\* get_selenium_response of shared_scripts.scraper: one attempt of the
\* fetch of a URL; r is what the network does.
get_selenium_response(url_in_message, r) ==
    [ok |-> r = "ok", source |-> "page:" \o url_in_message]

\* What the scrape of a URL inside a message can do: the fetch succeeds or
\* faults, or the page is there and extract_text or check_salary faults.
EmbeddedOutcomes == {"ok", "fault", "extract_fault", "salary_fault"}

\* Lines 638-690: one attempt of get_selenium_response for the URL at
\* position mi and, when it has the page, the rest of the iteration.  A
\* fetch that faults is tried again after a sleep, up to ntries times, and
\* the last fault is raised to line 665; nothing there or around
\* extract_text and check_salary catches a fault, the script stops.
EmbeddedUrlAttempt ==
    /\ pc = "embedded"
    /\ ei <= Len(data_compilation)
    /\ mi <= Len(urls_in_message)
    /\ \E r \in EmbeddedOutcomes :
         LET url_in_message == urls_in_message[mi]
             response == get_selenium_response(url_in_message,
                                               IF r = "fault" THEN "fault" ELSE "ok")
         IN IF ~response.ok
            THEN /\ trace' = << <<"fetch_fault", url_in_message>> >>
                 /\ RetryOrRaise
                 /\ UNCHANGED <<mi, data_compilation_urls_inside_messages>>
            ELSE IF r # "ok"
            THEN /\ trace' = << <<"fault", url_in_message>> >>
                 /\ pc' = "crashed"
                 /\ exit_code' = "1"
                 /\ UNCHANGED <<attempt, sleeps, mi, data_compilation_urls_inside_messages>>
            ELSE /\ data_compilation_urls_inside_messages' =
                       Append(data_compilation_urls_inside_messages,
                              UrlRecord(data_compilation[ei], url_in_message,
                                        Len(data_compilation_urls_inside_messages) + 1))
                 /\ trace' = << <<"scraped", url_in_message>> >>
                 /\ mi' = mi + 1
                 /\ attempt' = 0
                 /\ sleeps' = 0
                 /\ UNCHANGED <<pc, exit_code>>
    /\ UNCHANGED <<postings_sheet, urls_sheet, startup, driver,
                   missing_compilations_data, fetched, posting_vars, ei, blobs>>

\* Line 626: the text has no URL left, the outer loop takes the next
\* data_posting.
EmbeddedNextPosting ==
    /\ pc = "embedded"
    /\ ei <= Len(data_compilation)
    /\ mi > Len(urls_in_message)
    /\ ei' = ei + 1
    /\ mi' = 1
    /\ trace' = <<>>
    /\ UNCHANGED <<pc, postings_sheet, urls_sheet, startup, driver, attempt, sleeps,
                   missing_compilations_data, fetched, exit_code, posting_vars,
                   data_compilation_urls_inside_messages, blobs>>

\* The writes start whatever is left of the loop.
ScrapingCutShort ==
    /\ pc = "embedded"
    /\ pc' = "write_postings"
    /\ attempt' = 0
    /\ sleeps' = 0
    /\ trace' = <<>>
    /\ UNCHANGED <<postings_sheet, urls_sheet, startup, driver, missing_compilations_data,
                   fetched, exit_code, posting_vars, later_vars>>

\* Line 692: the loop is over.
ScrapingFinished ==
    /\ pc = "embedded"
    /\ ei > Len(data_compilation)
    /\ pc' = "write_postings"
    /\ attempt' = 0
    /\ sleeps' = 0
    /\ trace' = <<>>
    /\ UNCHANGED <<postings_sheet, urls_sheet, startup, driver, missing_compilations_data,
                   fetched, exit_code, posting_vars, later_vars>>

\* ------------------------------------------------------------ Google Sheets

\* element[:-2]
DropLastTwo(element) == SubSeq(element, 1, Len(element) - 2)

\* A request that adds the rows of body after the last row of the sheet.
AppendRows(sheet, first, body) == sheet \o body

\* values().update of the range that starts at row first: the rows of body
\* replace the rows from first on, the rows the body does not reach stay.
UpdateRange(sheet, first, body) ==
    [i \in 1..(IF Len(sheet) > first - 1 + Len(body) THEN Len(sheet) ELSE first - 1 + Len(body)) |->
        IF i >= first /\ i < first + Len(body) THEN body[i - first + 1] ELSE sheet[i]]

\* What a request to Google Sheets can do: succeed, fault before anything is
\* written, or fault after the rows were written.
WriteOutcomes == {"ok", "fault", "written_then_fault"}

\* Lines 699-734: one attempt of the write of the postings.
WritePostings ==
    /\ pc = "write_postings"
    /\ \E w \in WriteOutcomes :
         LET body == [i \in 1..Len(data_compilation) |-> DropLastTwo(data_compilation[i])]
         IN /\ postings_sheet' = IF w = "fault" THEN postings_sheet
                                 ELSE UpdateRange(postings_sheet, n_compilations + 1, body)
            /\ trace' = << <<"update", w>> >>
            /\ IF w = "ok"
               THEN /\ pc' = "write_urls"
                    /\ attempt' = 0
                    /\ sleeps' = 0
                    /\ UNCHANGED exit_code
               ELSE RetryOrRaise
    /\ UNCHANGED <<urls_sheet, startup, driver, missing_compilations_data, fetched,
                   posting_vars, later_vars>>

\* Lines 739-774: one attempt of the write of the URLs inside the messages.
WriteUrls ==
    /\ pc = "write_urls"
    /\ \E w \in WriteOutcomes :
         LET body == [i \in 1..Len(data_compilation_urls_inside_messages) |->
                         DropLastTwo(data_compilation_urls_inside_messages[i])]
         IN /\ urls_sheet' = IF w = "fault" THEN urls_sheet
                             ELSE UpdateRange(urls_sheet, n_urls + 1, body)
            /\ trace' = << <<"update", w>> >>
            /\ IF w = "ok"
               THEN /\ pc' = "drive_postings"
                    /\ attempt' = 0
                    /\ sleeps' = 0
                    /\ UNCHANGED exit_code
               ELSE RetryOrRaise
    /\ UNCHANGED <<postings_sheet, startup, driver, missing_compilations_data, fetched,
                   posting_vars, later_vars>>

\* ------------------------------------------------------------- Google Drive

\* The file names of the two upload_file calls per element, in order; idx
\* is the position of the ID in the element.
RECURSIVE FileNames(_, _)
FileNames(data, idx) ==
    IF data = <<>> THEN <<>>
    ELSE FileNames(SubSeq(data, 1, Len(data) - 1), idx)
           \o << <<data[Len(data)][idx], "source_code">>, <<data[Len(data)][idx], "text">> >>

\* The content handed to the upload number k (1-based) of data.
UploadContent(data, k) ==
    LET element == data[(k + 1) \div 2]
    IN IF k % 2 = 1 THEN element[Len(element) - 1] ELSE element[Len(element)]

\* Uploads that stop at the first one that fails.
UploadedUntilLost(data, idx, lost) ==
    LET names == FileNames(data, idx)
        kept  == { k \in 1..Len(names) :
                     /\ (lost = 0 \/ k < lost)
                     /\ \A n \in 1..k : UploadContent(data, n) # NoneValue }
        RECURSIVE Pick(_)
        Pick(n) == IF n = 0 THEN <<>>
                   ELSE IF n \in kept THEN Append(Pick(n - 1), names[n]) ELSE Pick(n - 1)
    IN Pick(Len(names))

\* upload_file, lines 99-150, called for every file of data: whatever goes
\* wrong inside one call is logged there and the next call runs.  The write
\* of None to the temporary file is a TypeError; apart from that at most
\* the upload number lost fails (0: none).
Uploaded(data, idx, lost) ==
    LET names == FileNames(data, idx)
        kept  == { k \in 1..Len(names) : k # lost /\ UploadContent(data, k) # NoneValue }
        RECURSIVE Pick(_)
        Pick(n) == IF n = 0 THEN <<>>
                   ELSE IF n \in kept THEN Append(Pick(n - 1), names[n]) ELSE Pick(n - 1)
    IN Pick(Len(names))

\* Lines 786-823: one attempt of the uploads of the postings.  build() is
\* the one call of the try that can raise.
DrivePostings ==
    /\ pc = "drive_postings"
    /\ \/ /\ trace' = << <<"build_fault", "drive">> >>
          /\ RetryOrRaise
          /\ UNCHANGED blobs
       \/ \E lost \in 0..(2 * Len(data_compilation)) :
            /\ blobs' = blobs \o Uploaded(data_compilation, 1, lost)
            /\ trace' = << <<"uploaded", "postings">> >>
            /\ pc' = "drive_urls"
            /\ attempt' = 0
            /\ sleeps' = 0
            /\ UNCHANGED exit_code
    /\ UNCHANGED <<postings_sheet, urls_sheet, startup, driver, missing_compilations_data,
                   fetched, posting_vars, ei, mi, data_compilation_urls_inside_messages>>

\* Lines 831-864: the uploads of the URLs inside the messages.  Nothing in
\* the try can raise (upload_file catches what its calls raise), the first
\* attempt is the only one; then the script is at its end.
DriveUrls ==
    /\ pc = "drive_urls"
    /\ \E lost \in 0..(2 * Len(data_compilation_urls_inside_messages)) :
         blobs' = blobs \o Uploaded(data_compilation_urls_inside_messages, 2, lost)
    /\ trace' = << <<"uploaded", "urls">> >>
    /\ pc' = "finished"
    /\ exit_code' = "0"
    /\ UNCHANGED <<postings_sheet, urls_sheet, startup, driver, attempt, sleeps,
                   missing_compilations_data, fetched, posting_vars, ei, mi,
                   data_compilation_urls_inside_messages>>

\* --------------------------------------------------------------------- Next

Next ==
    \/ IndexFault
    \/ IndexNoOp
    \/ IndexScrape
    \/ PostingAttempt
    \/ EmptyWeek
    \/ QuitDriver
    \/ EmbeddedUrlAttempt
    \/ EmbeddedNextPosting
    \/ ScrapingFinished
    \/ WritePostings
    \/ WriteUrls
    \/ DrivePostings
    \/ DriveUrls

Spec == Init /\ [][Next]_vars

\* ------------------------------------------------------- reading the state

dcu == data_compilation_urls_inside_messages

TraceHas(e) == \E i \in 1..Len(trace) : trace[i] = e

LastEvent == trace[Len(trace)]

\* The script stopped inside the first retry block.
CrashedInIndex == pc = "crashed" /\ Len(trace) > 0 /\ trace[1][2] = "LOGON"

\* The first retry block was left through its break.
IndexDone == pc \notin {"index", "exited"} /\ ~CrashedInIndex

\* Neither spreadsheet was written.
SheetsUntouched ==
    /\ urls_sheet = InitialUrlsSheet
    /\ Len(postings_sheet) = n_compilations
    /\ \A i \in 1..Len(postings_sheet) : postings_sheet[i] = OldRow(i, postings_sheet[i][2])

\* Nothing in the log of the attempt went wrong and no page was the login page.
CleanTrace ==
    \A i \in 1..Len(trace) :
        /\ trace[i][1] \notin {"get_fault", "login_fault", "extract_text_fault",
                               "check_salary_fault"}
        /\ trace[i] # <<"source", WallPage>>

LivePair == {live.previous_to_latest, live.previous_to_previous_to_latest}

\* ------------------------------------------------------------------ claims

\* C1: when the two labels of the archive index are the two last labels of
\* the ledger, the run has no posting and no URL record, fetches no
\* compilation page, writes nothing to the sheets or to Drive, the attempt
\* that gets to the test ends the process with status 0 instead of being
\* retried, and the only other end is the exhaustion of the retries by
\* faults before the test.
C1_NoOpRun ==
    NothingNew =>
        /\ pc \in {"index", "exited", "crashed"}
        /\ data_compilation = <<>>
        /\ dcu = <<>>
        /\ fetched \cap CompilationUrls = {}
        /\ SheetsUntouched
        /\ blobs = <<>>
        /\ TraceHas(<<"get", "LOGON">>) => (pc = "exited" /\ exit_code = "0")
        /\ pc = "exited" => exit_code = "0"
        /\ pc = "crashed" => trace = << <<"get_fault", "LOGON">> >>

\* A no-op run that ended after a first attempt had failed.
C1_Witness == NothingNew /\ pc = "exited" /\ attempt = 1 /\ exit_code = "0"

\* C2: right after a posting has used up its attempts, the record appended
\* for it has 'FAILURE' as salary flag, source code and text, the script
\* is still running, and the loops stand at the posting that follows it (or
\* are over when it was the last posting of the last week); the posting
\* loop is only ever left by an exception before the first posting.
C2_FailureContained ==
    /\ (Len(trace) > 0 /\ LastEvent[1] = "exhausted") =>
          LET u == LastEvent[2]
              r == data_compilation[Len(data_compilation)]
          IN /\ pc \in {"postings", "quit"}
             /\ exit_code = "running"
             /\ Len(r) = 7
             /\ r[3] = u
             /\ r[5] = FAILURE /\ r[6] = FAILURE /\ r[7] = FAILURE
             /\ attempt = 0
             /\ IF ui > 1
                THEN /\ pc = "postings"
                     /\ wk <= Len(missing_compilations_data)
                     /\ ui <= Len(missing_compilations_data[wk].urls)
                     /\ missing_compilations_data[wk].urls[ui - 1] = u
                ELSE /\ wk > 1
                     /\ LET before == missing_compilations_data[wk - 1].urls
                        IN before[Len(before)] = u
                     /\ pc = "quit" <=> wk > Len(missing_compilations_data)
    /\ (pc = "crashed" /\ TraceHas(<<"NameError", "url">>)) =>
          (url = Unbound /\ data_compilation = <<>>)

\* A posting failed for good and another posting of the same week is next.
C2_Witness ==
    /\ Len(trace) > 0 /\ LastEvent[1] = "exhausted"
    /\ pc = "postings" /\ ui > 1
    /\ data_compilation[Len(data_compilation)][7] = FAILURE

\* C3: the ids of data_compilation, in list order, are n_compilations + 1,
\* n_compilations + 2, ... without gap or repeat.
C3_ContiguousIds ==
    \A i \in 1..Len(data_compilation) : data_compilation[i][1] = n_compilations + i

\* C4: no two entries of data_compilation have the same id (one entry per
\* posting, none appended twice).
C4_OneRecordPerPosting ==
    \A i \in 1..Len(data_compilation) : \A j \in 1..Len(data_compilation) :
        i # j => data_compilation[i][1] # data_compilation[j][1]

\* C5: for two URLs of one week, the one that comes first in the page has
\* the smaller id in every record made for it, failed or not.
C5_OrderPreserved ==
    \A w \in 1..Len(missing_compilations_data) :
      LET us == missing_compilations_data[w].urls
      IN \A a \in 1..Len(us) : \A b \in 1..Len(us) :
           a < b =>
             \A i \in 1..Len(data_compilation) : \A j \in 1..Len(data_compilation) :
                ( /\ data_compilation[i][2] = missing_compilations_data[w].week
                  /\ data_compilation[j][2] = missing_compilations_data[w].week
                  /\ data_compilation[i][3] = us[a]
                  /\ data_compilation[j][3] = us[b] )
                => data_compilation[i][1] < data_compilation[j][1]

\* Two postings of one week have their records, the first one failed.
C5_Witness ==
    \E i \in 1..Len(data_compilation) : \E j \in 1..Len(data_compilation) :
        /\ i < j
        /\ data_compilation[i][2] = data_compilation[j][2]
        /\ data_compilation[i][3] # data_compilation[j][3]
        /\ data_compilation[i][7] = FAILURE
        /\ data_compilation[j][7] \notin {FAILURE, NoneValue}

\* C6: every week without posting URL the loop went through has a record
\* with None as salary flag, source code and text, and the loop never stops
\* on a compilation page without posting URL, the first week of the run
\* included.
C6_EmptyWeekMarked ==
    /\ (pc = "crashed" /\ TraceHas(<<"NameError", "url">>)) =>
          missing_compilations_data[wk].week = WallWeek
    /\ \A k \in 1..Len(missing_compilations_data) :
          (pc # "index" /\ k < wk /\ missing_compilations_data[k].urls = <<>>) =>
             \E i \in 1..Len(data_compilation) :
                /\ data_compilation[i][2] = missing_compilations_data[k].week
                /\ data_compilation[i][5] = NoneValue
                /\ data_compilation[i][6] = NoneValue
                /\ data_compilation[i][7] = NoneValue

\* C7: a compilation of the archive index is fetched only if its label is
\* not the last label of the ledger, and once the first retry block is
\* left every such compilation was fetched and has its entry, the one whose
\* label is the ledger's second-to-last label included.
C7_DifferSelection ==
    /\ \A c \in LivePair :
          /\ c.href \in fetched => c.label # last_compilation_collected
          /\ (IndexDone /\ c.label # last_compilation_collected) => c.href \in fetched
    /\ IndexDone =>
          Len(missing_compilations_data) =
             Cardinality({c \in LivePair : c.label # last_compilation_collected})

\* The older entry has the ledger's second-to-last label and was fetched again.
C7_Witness ==
    /\ IndexDone
    /\ live.previous_to_previous_to_latest.label = previous_to_last_compilation_collected
    /\ live.previous_to_previous_to_latest.href \in fetched

\* What the scrape of compilation c can put into missing_compilations_data.
Parses(c) == { ParseCompilation(c, o) : o \in { x \in CompilationOutcomes : ~CompilationFaulted(x) } }

C9_FallbackCorrect ==
    \A u \in PostingUrls :
        ( /\ HasHtmlLink(u) /\ ~HasPlainLink(u)
          /\ Len(trace) >= 2
          /\ trace[1] = <<"get", u>>
          /\ TraceHas(<<"source", "page:" \o u>>)
          /\ CleanTrace )
        => /\ LastEvent = <<"break", u>>
           /\ TraceHas(<<"no_link", "text/plain">>)
           /\ TraceHas(<<"get", url_base \o HtmlHref(u)>>)
           /\ LET r == data_compilation[Len(data_compilation)]
              IN /\ Len(r) = 7
                 /\ r[3] = u
                 /\ r[6] = MessagePage(url_base \o HtmlHref(u))
                 /\ r[7] = extract_text(r[6])
                 /\ r[5] = check_salary(r[7])
                 /\ r[6] # FAILURE /\ r[7] # FAILURE

\* The first attempt for u2 stored the HTML message.
C9_Witness ==
    /\ Len(trace) >= 2
    /\ trace[1] = <<"get", "https://u2">>
    /\ LastEvent = <<"break", "https://u2">>
    /\ TraceHas(<<"no_link", "text/plain">>)
    /\ data_compilation[Len(data_compilation)][6] = MessagePage(url_base \o HtmlHref("https://u2"))
    /\ sleeps = 0

\* C10: an attempt goes on to the HTML message only when the posting page
\* has no 'text/plain' link: an attempt that navigated to the plain text
\* message does not navigate to the HTML message; and an attempt that finds
\* neither link ends in the outer except.
C10_FallbackOnlyWhenLinkAbsent ==
    /\ \A u \in PostingUrls :
          (TraceHas(<<"get", url_base \o PlainHref(u)>>)
             \/ TraceHas(<<"get_fault", url_base \o PlainHref(u)>>))
          => /\ ~TraceHas(<<"get", url_base \o HtmlHref(u)>>)
             /\ ~TraceHas(<<"get_fault", url_base \o HtmlHref(u)>>)
    /\ (TraceHas(<<"no_link", "text/plain">>) /\ TraceHas(<<"no_link", "text/html">>))
          => \E i \in 1..Len(trace) : trace[i][1] = "except"


\* An absolute URL whose scheme is https.
HasHttpsScheme(href) == Len(href) >= 8 /\ SubSeq(href, 1, 8) = "https://"

\* The hrefs, in document order, of the anchors whose text names a posting
\* and whose href has the scheme https.
RECURSIVE SecurePostingLinks(_)
SecurePostingLinks(anchors) ==
    IF anchors = <<>> THEN <<>>
    ELSE LET a    == anchors[Len(anchors)]
             rest == SecurePostingLinks(SubSeq(anchors, 1, Len(anchors) - 1))
         IN IF contains_posting(a.text) /\ HasHttpsScheme(a.href)
            THEN Append(rest, a.href) ELSE rest

\* C11: the posting URLs kept for a compilation page are the hrefs of the
\* anchors whose text contains, in any case, 'faculty', 'professor',
\* 'position' or 'instructor' and whose href is an absolute https URL; an
\* href with 'https' somewhere else is not kept.
C11_PostingFilter ==
    \A k \in 1..Len(missing_compilations_data) :
        missing_compilations_data[k].week # WallWeek =>
            \E c \in LivePair :
                /\ c.week = missing_compilations_data[k].week
                /\ missing_compilations_data[k].urls = SecurePostingLinks(c.anchors)


RECURSIVE Occurrences(_)
Occurrences(n) ==
    IF n = 0 THEN <<>>
    ELSE LET posting == data_compilation[n]
             found   == extract_urls(posting[7])
         IN Occurrences(n - 1) \o [i \in 1..Len(found) |-> <<posting[1], found[i]>>]

\* C13: the ids of the URL records, in list order, are n_urls + 1,
\* n_urls + 2, ...; while the loop runs and after it the list has one
\* record per URL occurrence of the postings gone through, in posting order
\* and in the order of the text, a URL that a text has twice two times.
C13_UrlIds ==
    /\ \A i \in 1..Len(dcu) : dcu[i][2] = n_urls + i
    /\ pc \in {"embedded", "write_postings", "write_urls", "drive_postings",
               "drive_urls", "finished"} =>
          [i \in 1..Len(dcu) |-> <<dcu[i][1], dcu[i][5]>>]
             = IF pc = "embedded" /\ ei <= Len(data_compilation)
               THEN Occurrences(ei - 1)
                      \o [i \in 1..(mi - 1) |-> <<data_compilation[ei][1], urls_in_message[i]>>]
               ELSE Occurrences(Len(data_compilation))

\* Three URL records, the first two for the same URL of the same message.
C13_Witness ==
    /\ Len(dcu) >= 3
    /\ dcu[1][1] = dcu[2][1]
    /\ dcu[1][5] = dcu[2][5]
    /\ dcu[3][1] # dcu[1][1]
    /\ pc = "write_postings"


\* The postings of the run that a URL record names by ID, week and URL.
Owners(record) ==
    {j \in 1..Len(data_compilation) :
        /\ data_compilation[j][1] = record[1]
        /\ data_compilation[j][2] = record[3]
        /\ data_compilation[j][3] = record[4]}

\* C14: the posting ID, week and posting URL of every URL record are those
\* of exactly one posting of the run, whose text is neither None nor FAILURE
\* and has the URL of the record in it.
C14_ForeignKey ==
    \A i \in 1..Len(dcu) :
        /\ Cardinality(Owners(dcu[i])) = 1
        /\ \A j \in Owners(dcu[i]) :
              /\ data_compilation[j][7] \notin {NoneValue, FAILURE}
              /\ \E n \in 1..Len(extract_urls(data_compilation[j][7])) :
                    extract_urls(data_compilation[j][7])[n] = dcu[i][5]

\* URL records of two postings, in a run that also has a doubled FAILURE
\* posting.
C14_Witness ==
    /\ \E i, k \in 1..Len(dcu) : dcu[i][1] # dcu[k][1]
    /\ \E j \in 1..Len(data_compilation) : data_compilation[j][7] = FAILURE
    /\ pc = "write_postings"


\* The log of the attempt has a fault of the first retry block.
IndexAttemptFaulted ==
    \E i \in 1..Len(trace) : trace[i][1] \in {"get_fault", "login_fault", "parse_fault"}

\* The log of the attempt is a request to Google Sheets that faulted.
WriteAttemptFaulted ==
    Len(trace) > 0 /\ trace[1][1] = "update" /\ trace[1][2] # "ok"

\* C15: a last attempt of the first retry block that faults stops the
\* script with status 1 with no posting, no URL record, no row written and
\* no upload; a last attempt of a sheet write that faults stops the script
\* with status 1 and nothing of a later phase is done (no row of the URLs
\* sheet after the postings write, no upload after either); a last attempt
\* for a posting that faults leaves the script running on the next posting;
\* a script that stopped takes no further step.
C15_FatalAndRecovered ==
    [][ /\ (pc = "index" /\ attempt = ntries - 1 /\ IndexAttemptFaulted') =>
              /\ pc' = "crashed" /\ exit_code' = "1"
              /\ data_compilation' = <<>> /\ dcu' = <<>>
              /\ SheetsUntouched' /\ blobs' = <<>>
        /\ (pc = "write_postings" /\ attempt = ntries - 1 /\ WriteAttemptFaulted') =>
              /\ pc' = "crashed" /\ exit_code' = "1"
              /\ urls_sheet' = InitialUrlsSheet /\ blobs' = <<>>
        /\ (pc = "write_urls" /\ attempt = ntries - 1 /\ WriteAttemptFaulted') =>
              /\ pc' = "crashed" /\ exit_code' = "1"
              /\ blobs' = <<>>
        /\ (pc = "postings" /\ Len(trace') > 0 /\ LastEvent'[1] = "exhausted") =>
              /\ pc' \in {"postings", "quit"} /\ exit_code' = "running"
              /\ Len(data_compilation') > Len(data_compilation)
        /\ pc \in {"crashed", "exited", "finished"} => FALSE
      ]_vars

\* The write of the URLs is out of attempts in a run that has an exhausted
\* posting and wrote its postings.
C15_Witness ==
    /\ pc = "crashed"
    /\ WriteAttemptFaulted
    /\ Len(postings_sheet) > n_compilations
    /\ \E j \in 1..Len(data_compilation) : data_compilation[j][7] = FAILURE
    /\ \E i \in 1..Len(postings_sheet) : postings_sheet[i][5] = FAILURE


\* The log of the attempt is a fetch of a URL inside a message that faulted.
UrlFetchFaulted == Len(trace) > 0 /\ trace[1][1] = "fetch_fault"

\* C16: the fetch of a URL inside a message has at most ntries attempts
\* with one sleep after each fault but the last; after a fault the script
\* either has an attempt left or has stopped, and when it stopped on the
\* fault it was the attempt number ntries, the status is 1, no URL record
\* has FAILURE in it, neither sheet has a new row, nothing is uploaded, and
\* the two last labels of the ledger are the ones the run read.
C16_UrlFetchFatal ==
    /\ pc = "embedded" => attempt < ntries /\ sleeps = attempt
    /\ UrlFetchFaulted =>
          /\ pc \in {"embedded", "crashed"}
          /\ pc = "embedded" => attempt >= 1
          /\ pc = "crashed" =>
                /\ attempt = ntries - 1 /\ sleeps = ntries - 1
                /\ exit_code = "1"
                /\ \A i \in 1..Len(dcu) : \A f \in 7..9 : dcu[i][f] # FAILURE
                /\ SheetsUntouched
                /\ blobs = <<>>
                /\ LET ledger == weeks(ColumnB(postings_sheet))
                   IN /\ ledger[Len(ledger)] = last_compilation_collected
                      /\ ledger[Len(ledger) - 1] = previous_to_last_compilation_collected

\* The script stopped on the fetch of the second URL of a message, with one
\* URL record and a failed posting that are lost.
C16_Witness ==
    /\ pc = "crashed"
    /\ UrlFetchFaulted
    /\ Len(dcu) = 1
    /\ mi = 2
    /\ \E j \in 1..Len(data_compilation) : data_compilation[j][7] = FAILURE


\* The pc values of the retry blocks of the index, of a posting and of the
\* two sheet writes.
RetryBlocks == {"index", "postings", "write_postings", "write_urls"}

\* The log of the attempt for a posting ends in the outer except clause.
PostingAttemptFaulted == \E i \in 1..Len(trace) : trace[i][1] = "except"

\* The log of the attempt for a posting ends with the break.
PostingAttemptBroke == Len(trace) > 0 /\ LastEvent[1] = "break"

\* What C17 says of one step of the script.
RetryStep ==
        pc \in RetryBlocks =>
          /\ attempt < ntries /\ sleeps = attempt
          /\ LET faulted == CASE pc = "index" -> IndexAttemptFaulted'
                              [] pc = "postings" -> PostingAttemptFaulted'
                              [] OTHER -> WriteAttemptFaulted'
                 success == CASE pc = "index" -> ~IndexAttemptFaulted' /\ pc' # "exited"
                              [] pc = "postings" -> PostingAttemptBroke'
                              [] OTHER -> Len(trace') > 0 /\ trace'[1] = <<"update", "ok">>
             IN /\ success =>
                      /\ attempt' = 0 /\ sleeps' = 0
                      /\ IF pc = "postings"
                         THEN Len(data_compilation') = Len(data_compilation) + 1
                                /\ (pc' # pc \/ ui' # ui \/ wk' # wk)
                         ELSE pc' \notin {pc, "crashed"}
                /\ (faulted /\ attempt < ntries - 1) =>
                      /\ attempt' = attempt + 1 /\ sleeps' = sleeps + 1
                      /\ pc' = pc
                      /\ UNCHANGED <<ui, wk, data_compilation>>
                /\ (faulted /\ attempt = ntries - 1) =>
                      IF pc = "postings"
                      THEN sleeps' = 0 /\ attempt' = 0 /\ pc' # "crashed"
                      ELSE /\ sleeps' = sleeps /\ attempt' = attempt
                           /\ pc' = "crashed" /\ exit_code' = "1"

\* C17: in the retry blocks of the index, of a posting and of the two sheet
\* writes the attempt number stays below ntries and there was one sleep per
\* earlier attempt; an attempt that succeeds leaves the block; an attempt
\* that faults with attempts left sleeps once and stays in the block; the
\* last attempt that faults does not sleep, and in the index and write
\* blocks the script stops there with status 1 and the log of that attempt.
C17_RetryMechanics == [][RetryStep]_vars

\* The first retry block is out of attempts on a fault at the second
\* compilation, after one sleep per earlier attempt.
C17_Witness ==
    /\ pc = "crashed"
    /\ IndexAttemptFaulted
    /\ Len(missing_compilations_data) = 1
    /\ attempt = ntries - 1
    /\ sleeps = ntries - 1


\* C18: once the process has ended (status 0 or 1) the driver is quit.
C18_DriverReleased ==
    exit_code # "running" => driver = "quit"

\* C19: in the log of an attempt every login at a URL is followed at once by
\* a second navigation to that URL, and the source code is read after it.
C19_RefetchAfterLogin ==
    \A i \in 1..Len(trace) :
        trace[i][1] = "login" =>
            /\ i + 1 < Len(trace)
            /\ trace[i + 1] = <<"get", trace[i][2]>>
            /\ trace[i + 2][1] = "source"

\* C20: no posting has the login page as its source code or the text of the
\* login page as its text.
C20_NoWallData ==
    \A j \in 1..Len(data_compilation) :
        /\ data_compilation[j][6] # WallPage
        /\ data_compilation[j][7] # extract_text(WallPage)


\* The rows of the postings sheet from row n_compilations + 1 on, and of
\* the URLs sheet from row n_urls + 1 on.
NewPostingRows == SubSeq(postings_sheet, n_compilations + 1, Len(postings_sheet))
NewUrlRows == SubSeq(urls_sheet, n_urls + 1, Len(urls_sheet))

\* The rows the run has for each sheet: every record without its last two
\* fields, in list order.
RunPostingRows == [i \in 1..Len(data_compilation) |-> DropLastTwo(data_compilation[i])]
RunUrlRows == [i \in 1..Len(dcu) |-> DropLastTwo(dcu[i])]

\* C21: the new rows of a sheet are none or all the rows of the run in list
\* order, and the old rows stay; a sheet has new rows or Drive a file only
\* after the driver was quit and the loop over the postings' texts was
\* over; the URLs sheet has new rows only when the postings sheet has its
\* own; Drive has a file only when both sheets were written.
C21_WritesAtTheEnd ==
    /\ NewPostingRows \in {<<>>, RunPostingRows}
    /\ NewUrlRows \in {<<>>, RunUrlRows}
    /\ SubSeq(urls_sheet, 1, n_urls) = InitialUrlsSheet
    /\ \A i \in 1..n_compilations : postings_sheet[i] = OldRow(i, postings_sheet[i][2])
    /\ (NewPostingRows # <<>> \/ NewUrlRows # <<>> \/ blobs # <<>>) =>
          /\ driver = "quit"
          /\ ei > Len(data_compilation)
          /\ NewPostingRows = RunPostingRows
    /\ blobs # <<>> => NewUrlRows = RunUrlRows
    /\ pc \in {"drive_postings", "drive_urls", "finished"} =>
          NewPostingRows = RunPostingRows /\ NewUrlRows = RunUrlRows

\* A finished run with two postings, two URL records and uploads.
C21_Witness ==
    /\ pc = "finished"
    /\ Len(NewPostingRows) >= 2
    /\ Len(NewUrlRows) >= 2
    /\ blobs # <<>>


\* The upload_file calls for data whose content is a string.
Uploadable(data) == { k \in 1..(2 * Len(data)) : UploadContent(data, k) # NoneValue }

\* The script stopped in the retry block of the Drive uploads.
DriveFault == Len(trace) > 0 /\ trace[1][1] = "build_fault"

\* C22 as stated: no fault of Google Drive stops the script with a failure.
C22_DriveNeverFatal ==
    DriveFault => pc # "crashed"

\* C22 amended: once the first block of uploads has run, every upload with
\* a string content but at most one per block is in Drive, none more than
\* once per call, and the script goes on to status 0; the script stops with
\* status 1 after both sheets were written only when build('drive') faulted
\* in each of the ntries attempts, and then nothing was uploaded.
C22_UploadFaultsSwallowed ==
    /\ pc = "drive_urls" =>
          /\ Len(blobs) <= Cardinality(Uploadable(data_compilation))
          /\ Len(blobs) >= Cardinality(Uploadable(data_compilation)) - 1
          /\ exit_code = "running"
    /\ pc = "finished" =>
          /\ Len(blobs) <= Cardinality(Uploadable(data_compilation)) + Cardinality(Uploadable(dcu))
          /\ Len(blobs) >= Cardinality(Uploadable(data_compilation)) + Cardinality(Uploadable(dcu)) - 2
          /\ exit_code = "0"
    /\ pc = "crashed" => blobs = <<>>
    /\ DriveFault =>
          /\ NewPostingRows = RunPostingRows /\ NewUrlRows = RunUrlRows
          /\ pc \in {"drive_postings", "crashed"}
          /\ pc = "crashed" => attempt = ntries - 1 /\ exit_code = "1"
          /\ pc = "drive_postings" => attempt >= 1

\* A finished run with the record of an empty week, whose two contents are
\* None, and an upload that failed in each block.
C22_Witness ==
    /\ pc = "finished"
    /\ \E j \in 1..Len(data_compilation) : data_compilation[j][7] = NoneValue
    /\ Cardinality(Uploadable(data_compilation)) >= 2
    /\ Cardinality(Uploadable(dcu)) >= 2
    /\ Len(blobs) = Cardinality(Uploadable(data_compilation)) + Cardinality(Uploadable(dcu)) - 2


\* The compilations of the archive index that a record with this week and
\* this posting URL can come from: the week is the one inside the page, and
\* the URL is one of the page or the record is the one of an empty week.
SourcesOf(record_week, record_url, empty) ==
    { c \in LivePair :
        /\ c.week = record_week
        /\ empty \/ \E n \in 1..Len(PageLinks[c.href]) : PageLinks[c.href][n] = record_url }

SalaryFlags == {"True", "False", FAILURE, NoneValue}
IsSourceCode(x) == x \in {FAILURE, NoneValue, WallPage} \/ (Len(x) >= 5 /\ SubSeq(x, 1, 5) = "page:")
IsText(x) == x \in {FAILURE, NoneValue} \/ (Len(x) >= 5 /\ SubSeq(x, 1, 5) = "text:")

\* C24: every posting has 7 fields and every URL record 9, the last three
\* being the salary flag, the source code and the text; data_posting has 4
\* fields between the attempts of a posting; and the rows written to the
\* sheets are the records without source code and text.
C24_RecordShape ==
    /\ \A j \in 1..Len(data_compilation) :
          /\ Len(data_compilation[j]) = 7
          /\ data_compilation[j][5] \in SalaryFlags
          /\ IsSourceCode(data_compilation[j][6])
          /\ IsText(data_compilation[j][7])
    /\ \A i \in 1..Len(dcu) :
          /\ Len(dcu[i]) = 9
          /\ dcu[i][7] \in SalaryFlags
          /\ IsSourceCode(dcu[i][8])
          /\ IsText(dcu[i][9])
    /\ (pc = "postings" /\ attempt > 0) => Len(data_posting) = 4
    /\ \A n \in 1..Len(NewPostingRows) :
          NewPostingRows[n] = SubSeq(data_compilation[n], 1, 5)
    /\ \A n \in 1..Len(NewUrlRows) :
          NewUrlRows[n] = SubSeq(dcu[n], 1, 7)

\* Rows were written for a scraped posting and for a failed posting, in a
\* run that has URL records.
C24_Witness ==
    /\ pc = "write_urls"
    /\ \E j \in 1..Len(data_compilation) : data_compilation[j][7] = FAILURE
    /\ \E j \in 1..Len(data_compilation) : IsText(data_compilation[j][7])
                                              /\ data_compilation[j][7] # FAILURE
    /\ Len(NewPostingRows) = Len(data_compilation)
    /\ Len(dcu) > 0


\* C25: once both sheets are written (no week of the run being one read
\* from a login page), the two last labels of the ledger, read as the next
\* run reads them, are the two labels of the archive index, so that the
\* test of line 289 ends the next run.
C25_NextRunNoOp ==
    (/\ pc \in {"drive_postings", "drive_urls", "finished"}
     /\ \A k \in 1..Len(missing_compilations_data) :
           missing_compilations_data[k].week # WallWeek) =>
        LET ledger == weeks(ColumnB(postings_sheet))
        IN /\ ledger[Len(ledger)] = live.previous_to_latest.label
           /\ ledger[Len(ledger) - 1] = live.previous_to_previous_to_latest.label


\* What C26 says of the step that leaves the first retry block.
IndexLeft ==
    (pc = "index" /\ pc' = "postings") =>
        /\ Len(missing_compilations_data') = Len(ToScrape)
        /\ Len(missing_compilations_data') <= 2
        /\ \A k \in 1..Len(ToScrape) : missing_compilations_data'[k] \in Parses(ToScrape[k])

\* C26: whatever an earlier attempt left in missing_compilations_data, the
\* attempt that leaves the first retry block leaves in it one entry per
\* compilation to scrape, older first, each with what its page gives: at
\* most two entries, none twice.
C26_NoResidue == [][IndexLeft]_vars

\* An attempt faulted at the second of two new compilations after it had
\* recorded the first, and another attempt is to come.
C26_Witness ==
    /\ pc = "index"
    /\ attempt >= 1
    /\ Len(ToScrape) = 2
    /\ Len(missing_compilations_data) = 1


\* C27: the postings sheet has its n_compilations old rows and after them
\* either nothing or the rows of the run once, whatever the number of
\* attempts and whether an attempt that faulted had written; the same for
\* the URLs sheet after its n_urls old rows; and past a write the rows are
\* there.
C27_IdempotentWrite ==
    /\ Len(postings_sheet) \in {n_compilations, n_compilations + Len(data_compilation)}
    /\ Len(urls_sheet) \in {n_urls, n_urls + Len(dcu)}
    /\ \A i \in 1..Len(postings_sheet) :
          postings_sheet[i] = IF i <= n_compilations
                              THEN OldRow(i, postings_sheet[i][2])
                              ELSE DropLastTwo(data_compilation[i - n_compilations])
    /\ \A i \in 1..Len(urls_sheet) :
          urls_sheet[i] = IF i <= n_urls
                          THEN InitialUrlsSheet[i]
                          ELSE DropLastTwo(dcu[i - n_urls])
    /\ pc \in {"write_urls", "drive_postings", "drive_urls", "finished"} =>
          Len(postings_sheet) = n_compilations + Len(data_compilation)
    /\ pc \in {"drive_postings", "drive_urls", "finished"} =>
          Len(urls_sheet) = n_urls + Len(dcu)

\* The write of the URLs was tried again and its last attempt wrote the
\* rows and faulted: the sheet has the two rows of the run once.
C27_Witness ==
    /\ pc = "crashed"
    /\ trace = << <<"update", "written_then_fault">> >>
    /\ attempt >= 1
    /\ Len(dcu) >= 2
    /\ Len(urls_sheet) = n_urls + Len(dcu)


\* The script is over: sys.exit() of the no-op run, an exception nothing
\* caught, or the last line.
Terminal == pc \in {"exited", "crashed", "finished"}

\* C28: when the script is over, it is not the case that the postings sheet
\* has the rows of the run while the run has URL records and the URLs sheet
\* has none of them.
C28_BothOrNeither ==
    Terminal => ~(NewPostingRows # <<>> /\ dcu # <<>> /\ NewUrlRows = <<>>)

\* The iterations of the posting loops still to come, the current one
\* included: one per URL of a week, one for a week without URL.
RECURSIVE PostingsLeft(_)
PostingsLeft(k) ==
    IF k > Len(missing_compilations_data) THEN 0
    ELSE (IF Len(missing_compilations_data[k].urls) = 0 THEN 1
          ELSE Len(missing_compilations_data[k].urls) - (IF k = wk THEN ui - 1 ELSE 0))
         + PostingsLeft(k + 1)

\* The steps the loop of line 626 can still take from data_posting number
\* k on: one to go to the next data_posting and ntries per URL of its text.
RECURSIVE UrlStepsLeft(_)
UrlStepsLeft(k) ==
    IF k > Len(data_compilation) THEN 0
    ELSE 1 + ntries * (Len(extract_urls(PostingText(data_compilation[k])))
                         - (IF k = ei THEN mi - 1 ELSE 0))
         + UrlStepsLeft(k + 1)

\* The phases of the script, the last first.
PhaseRank ==
    CASE pc = "index" -> 8
      [] pc = "postings" -> 7
      [] pc = "quit" -> 6
      [] pc = "embedded" -> 5
      [] pc = "write_postings" -> 4
      [] pc = "write_urls" -> 3
      [] pc = "drive_postings" -> 2
      [] pc = "drive_urls" -> 1
      [] OTHER -> 0

\* A bound on the steps the script can still take: the phases to come
\* count 1000 each, the current phase counts its iterations and attempts
\* left.
StepsLeft ==
    1000 * PhaseRank
      + (CASE pc \in {"index", "write_postings", "write_urls", "drive_postings"} ->
                ntries - attempt
           [] pc = "postings" -> ntries * PostingsLeft(wk) - attempt
           [] pc = "embedded" -> 1 + UrlStepsLeft(ei) - attempt
           [] OTHER -> 0)

\* C29: a script that is not over can take a step, and every step makes
\* the bound on the steps left smaller, a natural number that is 0 only
\* when the script is over: a run ends after at most that many steps, with
\* at most ntries attempts per retry block and one pass over each list.
C29_Terminates ==
    /\ [](/\ StepsLeft \in Nat
          /\ StepsLeft = 0 <=> Terminal
          /\ ~Terminal => ENABLED Next)
    /\ [][StepsLeft' < StepsLeft]_vars

\* The script came to its last line in a run with a posting that used up
\* its attempts and with URL records.
C29_Witness ==
    /\ pc = "finished"
    /\ \E j \in 1..Len(data_compilation) : data_compilation[j][7] = FAILURE
    /\ Len(dcu) > 0


====
